---- MODULE Spec2Model ----
(***************************************************************************)
(* Model of the dnsleak server (src/main.go): the DNS query recorder       *)
(* Handle.ServeDNS, the reporting endpoint lookup, and the expiring store  *)
(* (ttl_map.Heap) they share.                                              *)
(*                                                                         *)
(* Strings are sequences of one-character strings, so that concatenation,  *)
(* slicing and strings.Split are computed and not assumed.                 *)
(***************************************************************************)
EXTENDS Integers, Sequences, FiniteSets, TLC

VARIABLES
    boot,       \* main: its position and what it has set up so far
    now,        \* time.Now().Unix(), in seconds
    cache,      \* the ttl_map.Heap: key -> [Value, Timestamp]
    hpc,        \* per ServeDNS goroutine: "idle" | "got" (between Get and Set)
    hloc,       \* per ServeDNS goroutine: its locals domain, ip, ips
    nrec,       \* number of queries handed to ServeDNS so far
    resp,       \* lookup: the response to the latest request, kept while
                \* the store is as the request found it
    log,        \* history: per key, the addresses recorded since its last expiry
    overlap,    \* history: per key, whether two recordings of the key overlapped
    written,    \* history: per key, the time of the last cache.Set, -1 if none
    supplied    \* history: per key, the addresses ever written under it

vars == <<boot, now, cache, hpc, hloc, nrec, resp, log, overlap, written, supplied>>

----------------------------------------------------------------------------
(* Bounds of the model *)

NumHandlers == 2      \* concurrent ServeDNS goroutines (UDP and TCP listeners)
MaxRecords == 2       \* queries handed to ServeDNS in one behaviour
MaxTime == 300        \* the clock stops here

----------------------------------------------------------------------------
(* Program constants *)

\* A window one second too long.
TTLTooLong == 300 + 1

TTL == 300            \* cache.Set(domain, ips, 300)

Comma == ","

\* Time passes in steps of half a TTL window: a record is read inside its
\* window (150 s after the write) and exactly when the window ends (300 s).
Steps == {150}

\* Question names as the DNS library hands them over: fully qualified.
QNames == { <<"x", ".">>, <<"y", ".">> }

\* Question names as a protocol layer other than the DNS library's parser
\* may hand them over: one without the trailing root separator as well.
AnyNames == QNames \cup { <<"x", "y">> }

\* Domain labels a lookup request may name.
Labels == { <<"x">>, <<"y">> }

\* Origin addresses (addr.IP.String()); none contains a comma.
Addrs == { <<"1">>, <<"2">>, <<"3">>, <<"4">> }

Handlers == 1..NumHandlers

EmptyStr == << >>

EmptyMap == [k \in {} |-> 0]

\* A response: status code, error message (http.Error) and, for a report,
\* the encoded map out.  req, uniq and visited are history: the request, the
\* map uniqips the report was built from, and the addresses the loop got
\* to.  Code 0: no response.
NoResp == [code |-> 0, msg |-> "", body |-> EmptyMap, req |-> << >>,
           uniq |-> EmptyMap, visited |-> << >>]

\* main before its first statement, and main serving with everything set up.
Booting == [pc |-> "start", store |-> FALSE, country |-> FALSE, asn |-> FALSE,
            dns |-> FALSE, ready |-> FALSE, https |-> FALSE]

Serving == [pc |-> "serve", store |-> TRUE, country |-> TRUE, asn |-> TRUE,
            dns |-> TRUE, ready |-> TRUE, https |-> TRUE]

\* The process has not exited.
Running == boot.pc # "exit"

----------------------------------------------------------------------------
(* The expiring store, ttl_map.Heap *)

\* cache.Get(key): the value when the key is present and its deadline is
\* still in the future, "" otherwise.
CacheGet(c, key, t) ==
    IF key \in DOMAIN c /\ c[key].Timestamp > t THEN c[key].Value ELSE EmptyStr

\* cache.Set(key, value, ttl): replaces the record, deadline now + ttl.
CacheSet(c, key, value, ttl, t) ==
    [k \in DOMAIN c \cup {key} |->
        IF k = key THEN [Value |-> value, Timestamp |-> t + ttl] ELSE c[k]]

\* The record of key is present and its deadline has not passed.
Alive(c, key, t) == key \in DOMAIN c /\ c[key].Timestamp > t

----------------------------------------------------------------------------
(* The IP intelligence datasets, read-only after startup *)

\* dbCountry.Country(ip): the ISO code, or an error for an address the
\* dataset does not hold.
dbCountry(ip) ==
    CASE ip = <<"1">> -> [err |-> FALSE, IsoCode |-> "US"]
      [] ip = <<"2">> -> [err |-> FALSE, IsoCode |-> "DE"]
      [] ip = <<"3">> -> [err |-> FALSE, IsoCode |-> "DE"]
      [] OTHER -> [err |-> TRUE, IsoCode |-> ""]

\* dbASN.ASN(ip): number and organization, or an error.
dbASN(ip) ==
    CASE ip = <<"1">> -> [err |-> FALSE, Number |-> 64500, Organization |-> "ExampleISP"]
      [] ip = <<"2">> -> [err |-> FALSE, Number |-> 64500, Organization |-> "ExampleISP"]
      [] ip = <<"3">> -> [err |-> FALSE, Number |-> 64501, Organization |-> "OtherISP"]
      [] OTHER -> [err |-> TRUE, Number |-> 0, Organization |-> ""]

----------------------------------------------------------------------------
(* Handle.ServeDNS *)

\* name is history: the question name the goroutine was handed.
NoLocals == [name |-> EmptyStr, domain |-> EmptyStr, ip |-> EmptyStr,
             ips |-> EmptyStr, alive |-> FALSE]

\* domain = domain[:len(domain)-1]
StripLast(name) == SubSeq(name, 1, Len(name) - 1)

\* The address put in front of the value instead of behind it.
AddIPInFront(ips, ip) == <<Comma>> \o ip \o ips

\* The address appended only when the value does not hold it yet.
AddIPOnce(ips, ip) ==
    IF \E i \in 1..Len(ips) : SubSeq(ips, i, i + Len(ip) - 1) = ip
    THEN ips
    ELSE ips \o <<Comma>> \o ip

\* The address joined to the previous value with the separator between
\* them only: a first address is stored bare.
AddIPJoin(ips, ip) == IF ips = EmptyStr THEN ip ELSE ips \o <<Comma>> \o ip

\* ips += "," + ip
AddIP(ips, ip) == ips \o <<Comma>> \o ip

InFlight(d) == { q \in Handlers : hpc[q] = "got" /\ hloc[q].domain = d }

\* Lines 31-48: the origin address is taken from the remote address, the
\* trailing character of the question name is cut off, and the current
\* value of the key is read.  The listeners start one goroutine per query;
\* it takes the first free place p.
ServeDNSGet(p, qname, addr) ==
    /\ Running /\ boot.dns
    /\ hpc[p] = "idle"
    /\ \A q \in 1..(p - 1) : hpc[q] # "idle"
    /\ nrec < MaxRecords
    /\ LET domain == StripLast(qname) IN
        /\ hloc' = [hloc EXCEPT ![p] =
                      [name |-> qname, domain |-> domain, ip |-> addr,
                       ips |-> CacheGet(cache, domain, now),
                       alive |-> Alive(cache, domain, now)]]
        /\ overlap' = [overlap EXCEPT ![domain] = @ \/ InFlight(domain) # {}]
    /\ hpc' = [hpc EXCEPT ![p] = "got"]
    /\ nrec' = nrec + 1
    /\ UNCHANGED <<boot, now, cache, resp, log, written, supplied>>

\* Lines 31-40: the remote address is neither a UDP nor a TCP address, ip
\* stays "" and the handler panics.  Nothing recovers the panic of the
\* goroutine: the process exits.
ServeDNSPanic(p) ==
    /\ Running /\ boot.dns
    /\ hpc[p] = "idle"
    /\ \A q \in 1..(p - 1) : hpc[q] # "idle"
    /\ nrec < MaxRecords
    /\ hpc' = [hpc EXCEPT ![p] = "panic"]
    /\ nrec' = nrec + 1
    /\ boot' = [boot EXCEPT !.pc = "exit"]
    /\ UNCHANGED <<now, cache, hloc, resp, log, overlap, written, supplied>>

\* The write-back into a store made anew: the other records are gone.
ServeDNSSetAlone(p) ==
    /\ Running
    /\ hpc[p] = "got"
    /\ LET d == hloc[p].domain
           fresh == ~hloc[p].alive /\ ~Alive(cache, d, now) IN
        /\ cache' = CacheSet(EmptyMap, d, AddIP(hloc[p].ips, hloc[p].ip), TTL, now)
        /\ log' = [log EXCEPT ![d] =
                     IF fresh THEN <<hloc[p].ip>> ELSE Append(@, hloc[p].ip)]
        /\ overlap' = [overlap EXCEPT ![d] =
                         IF fresh /\ InFlight(d) = {p} THEN FALSE ELSE @]
        /\ written' = [written EXCEPT ![d] = now]
        /\ supplied' = [supplied EXCEPT ![d] = @ \cup {hloc[p].ip}]
    /\ hpc' = [hpc EXCEPT ![p] = "idle"]
    /\ hloc' = [hloc EXCEPT ![p] = NoLocals]
    /\ resp' = NoResp
    /\ UNCHANGED <<boot, now, nrec>>

\* Lines 49-50: the address is appended and the value written back.
ServeDNSSet(p) ==
    /\ Running
    /\ hpc[p] = "got"
    /\ LET d == hloc[p].domain
           fresh == ~hloc[p].alive /\ ~Alive(cache, d, now) IN
        /\ cache' = CacheSet(cache, d, AddIP(hloc[p].ips, hloc[p].ip), TTL, now)
        /\ log' = [log EXCEPT ![d] =
                     IF fresh THEN <<hloc[p].ip>> ELSE Append(@, hloc[p].ip)]
        /\ overlap' = [overlap EXCEPT ![d] =
                         IF fresh /\ InFlight(d) = {p} THEN FALSE ELSE @]
        /\ written' = [written EXCEPT ![d] = now]
        /\ supplied' = [supplied EXCEPT ![d] = @ \cup {hloc[p].ip}]
    /\ hpc' = [hpc EXCEPT ![p] = "idle"]
    /\ hloc' = [hloc EXCEPT ![p] = NoLocals]
    /\ resp' = NoResp
    /\ UNCHANGED <<boot, now, nrec>>

----------------------------------------------------------------------------
(* Time *)

Expires(d) == \E k \in DOMAIN cache : Alive(cache, k, now) /\ ~Alive(cache, k, now + d)

Advance(d) ==
    /\ Running
    /\ now + d <= MaxTime
    /\ now' = now + d
    /\ resp' = IF Expires(d) THEN NoResp ELSE resp
    /\ UNCHANGED <<boot, cache, hpc, hloc, nrec, log, overlap, written, supplied>>

----------------------------------------------------------------------------
(* lookup, the reporting endpoint *)

\* Position of the first separator in s, 0 when there is none.
RECURSIVE IndexFrom(_, _)
IndexFrom(s, i) ==
    IF i > Len(s) THEN 0
    ELSE IF s[i] = Comma THEN i
    ELSE IndexFrom(s, i + 1)

\* strings.Split(s, ","): the pieces between separators; one more piece
\* than there are separators, so Split("") is the one-element list [""].
RECURSIVE Split(_)
Split(s) ==
    LET i == IndexFrom(s, 1) IN
    IF i = 0 THEN <<s>>
    ELSE <<SubSeq(s, 1, i - 1)>> \o Split(SubSeq(s, i + 1, Len(s)))

\* n, _ := uniqips[ip]; uniqips[ip] = n + 1, for every piece in turn.
RECURSIVE Count(_, _)
Count(u, parts) ==
    IF parts = << >> THEN u
    ELSE LET ip == Head(parts)
             n == IF ip \in DOMAIN u THEN u[ip] ELSE 0 IN
         Count([k \in DOMAIN u \cup {ip} |-> IF k = ip THEN n + 1 ELSE u[k]],
               Tail(parts))

\* The domain lists of the requests: none, one, one twice, two.
Requests == { << >> } \cup { <<d>> : d \in Labels }
              \cup { << <<"x">>, d >> : d \in Labels }

\* Response{ISP, Country, IP} built from one address.
ResponseOf(ipstr) ==
    [ISP |-> dbASN(ipstr).Organization, Country |-> dbCountry(ipstr).IsoCode, IP |-> ipstr]

\* The entry written without the test for an existing one: last seen wins.
PutOverwrite(out, ipstr) ==
    [k \in DOMAIN out \cup {dbASN(ipstr).Number} |->
        IF k = dbASN(ipstr).Number
        THEN [ISP |-> dbASN(ipstr).Organization,
              Country |-> dbCountry(ipstr).IsoCode, IP |-> ipstr]
        ELSE out[k]]

\* Lines 121-127: an identifier already in out keeps its entry.
Put(out, ipstr) ==
    LET asn == dbASN(ipstr).Number IN
    IF asn \in DOMAIN out THEN out
    ELSE [k \in DOMAIN out \cup {asn} |-> IF k = asn THEN ResponseOf(ipstr) ELSE out[k]]

\* The same loop, but a report left without entries is turned into a failure.
\* The loop without the test for the empty string: the blank piece is
\* looked up like an address.
RECURSIVE HumanizeNoBlankTest(_, _, _, _)
HumanizeNoBlankTest(order, i, out, visited) ==
    IF i > Len(order) THEN [ok |-> TRUE, out |-> out, visited |-> visited]
    ELSE IF dbCountry(order[i]).err \/ dbASN(order[i]).err
         THEN [ok |-> FALSE, out |-> EmptyMap, visited |-> Append(visited, order[i])]
    ELSE HumanizeNoBlankTest(order, i + 1, Put(out, order[i]), Append(visited, order[i]))

RECURSIVE HumanizeRejectEmpty(_, _, _, _)
HumanizeRejectEmpty(order, i, out, visited) ==
    IF i > Len(order) \/ Len(order[i]) = 0
    THEN [ok |-> out # EmptyMap, out |-> out, visited |-> visited]
    ELSE IF dbCountry(order[i]).err \/ dbASN(order[i]).err
         THEN [ok |-> FALSE, out |-> EmptyMap, visited |-> Append(visited, order[i])]
    ELSE HumanizeRejectEmpty(order, i + 1, Put(out, order[i]), Append(visited, order[i]))

\* Lines 101-129, the loop over uniqips taken in the order `order`: it
\* stops at the empty string, and fails on the first address either
\* dataset does not hold.  visited lists the addresses it got to.
RECURSIVE Humanize(_, _, _, _)
Humanize(order, i, out, visited) ==
    IF i > Len(order) THEN [ok |-> TRUE, out |-> out, visited |-> visited]
    ELSE LET ipstr == order[i] IN
         IF Len(ipstr) = 0 THEN [ok |-> TRUE, out |-> out, visited |-> visited]
         ELSE IF dbCountry(ipstr).err \/ dbASN(ipstr).err
              THEN [ok |-> FALSE, out |-> EmptyMap, visited |-> Append(visited, ipstr)]
         ELSE Humanize(order, i + 1, Put(out, ipstr), Append(visited, ipstr))

\* The orders in which a range over a map with key set S may run: every
\* arrangement of S.
RECURSIVE Orders(_)
Orders(S) ==
    IF S = {} THEN { << >> }
    ELSE UNION { { <<k>> \o rest : rest \in Orders(S \ {k}) } : k \in S }

\* The read that takes the value of every key of the store for each
\* requested domain.
RECURSIVE ReadAllKeys(_, _, _, _, _)
ReadAllKeys(c, t, req, i, u) ==
    IF i > Len(req) THEN u
    ELSE LET all[S \in SUBSET DOMAIN c] ==
                 IF S = {} THEN << >>
                 ELSE LET k == CHOOSE k \in S : TRUE IN
                      Split(CacheGet(c, k, t)) \o all[S \ {k}] IN
         ReadAllKeys(c, t, req, i + 1,
                     Count(u, Split(CacheGet(c, req[i], t)) \o all[DOMAIN c]))

\* Lines 91-97: the values of the domains of req from index i on are read
\* and their pieces counted into u.
RECURSIVE ReadAll(_, _, _, _, _)
ReadAll(c, t, req, i, u) ==
    IF i > Len(req) THEN u
    ELSE ReadAll(c, t, req, i + 1, Count(u, Split(CacheGet(c, req[i], t))))

\* Lines 74-77: a CORS preflight is answered at once.
LookupOptions ==
    /\ Running /\ boot.https
    /\ resp' = [NoResp EXCEPT !.code = 200, !.msg = "CORS :)"]
    /\ UNCHANGED <<boot, now, cache, hpc, hloc, nrec, log, overlap, written, supplied>>

\* The rejection written with log.Fatal: the process exits.
LookupBadInputFatal ==
    /\ Running /\ boot.https
    /\ resp' = [NoResp EXCEPT !.code = 400, !.msg = "failed decoding input"]
    /\ boot' = [boot EXCEPT !.pc = "exit"]
    /\ UNCHANGED <<now, cache, hpc, hloc, nrec, log, overlap, written, supplied>>

\* Lines 79-84: a body that does not decode is rejected.
LookupBadInput ==
    /\ Running /\ boot.https
    /\ resp' = [NoResp EXCEPT !.code = 400, !.msg = "failed decoding input"]
    /\ UNCHANGED <<boot, now, cache, hpc, hloc, nrec, log, overlap, written, supplied>>

\* A lookup that renews the deadline of the first record it reads.
LookupRenews(req) ==
    /\ Running /\ boot.https
    /\ LET u == ReadAll(cache, now, req, 1, EmptyMap) IN
       \E order \in Orders(DOMAIN u) :
         LET r == Humanize(order, 1, EmptyMap, << >>) IN
         resp' = [code |-> IF r.ok THEN 200 ELSE 400,
                  msg |-> IF r.ok THEN "" ELSE "failed parsing IPs",
                  body |-> r.out, req |-> req, uniq |-> u,
                  visited |-> r.visited]
    /\ cache' = IF req # << >> /\ Alive(cache, req[1], now)
                THEN CacheSet(cache, req[1], cache[req[1]].Value, TTL, now)
                ELSE cache
    /\ UNCHANGED <<boot, now, hpc, hloc, nrec, log, overlap, written, supplied>>

\* Lines 85-141: the body decodes to the domain list req, the store is read,
\* the report built in some order of the map, and the response written.
\* The handler only reads the store and is taken as one step.
Lookup(req) ==
    /\ Running /\ boot.https
    /\ LET u == ReadAll(cache, now, req, 1, EmptyMap) IN
       \E order \in Orders(DOMAIN u) :
         LET r == Humanize(order, 1, EmptyMap, << >>) IN
         resp' = [code |-> IF r.ok THEN 200 ELSE 400,
                  msg |-> IF r.ok THEN "" ELSE "failed parsing IPs",
                  body |-> r.out, req |-> req, uniq |-> u,
                  visited |-> r.visited]
    /\ UNCHANGED <<boot, now, cache, hpc, hloc, nrec, log, overlap, written, supplied>>

----------------------------------------------------------------------------
(* main *)

\* Line 158: the store is created.
MainNewStore ==
    /\ boot.pc = "start"
    /\ boot' = [boot EXCEPT !.store = TRUE, !.pc = "country"]
    /\ UNCHANGED <<now, cache, hpc, hloc, nrec, resp, log, overlap, written, supplied>>

\* Lines 161-165: the country dataset is opened; log.Fatal when that fails.
MainOpenCountry(ok) ==
    /\ boot.pc = "country"
    /\ boot' = IF ok THEN [boot EXCEPT !.country = TRUE, !.pc = "asn"]
                    ELSE [boot EXCEPT !.pc = "exit"]
    /\ UNCHANGED <<now, cache, hpc, hloc, nrec, resp, log, overlap, written, supplied>>

\* Lines 167-171: the ASN dataset is opened; log.Fatal when that fails.
MainOpenASN(ok) ==
    /\ boot.pc = "asn"
    /\ boot' = IF ok THEN [boot EXCEPT !.asn = TRUE, !.pc = "listen"]
                    ELSE [boot EXCEPT !.pc = "exit"]
    /\ UNCHANGED <<now, cache, hpc, hloc, nrec, resp, log, overlap, written, supplied>>

\* The listeners started right after the store is created, before the
\* datasets are opened.
MainListenEarly ==
    /\ boot.pc = "country"
    /\ boot' = [boot EXCEPT !.dns = TRUE, !.pc = "notify"]
    /\ UNCHANGED <<now, cache, hpc, hloc, nrec, resp, log, overlap, written, supplied>>

\* Lines 173-198: the goroutines of the UDP and the TCP DNS listener are
\* started (and the HTTP listener of the certificate manager).
MainListen ==
    /\ boot.pc = "listen"
    /\ boot' = [boot EXCEPT !.dns = TRUE, !.pc = "notify"]
    /\ UNCHANGED <<now, cache, hpc, hloc, nrec, resp, log, overlap, written, supplied>>

\* Lines 200-206: READY=1 is sent to the supervisor; log.Fatal on an error,
\* a log line when there is nobody to notify.
MainNotify(outcome) ==
    /\ boot.pc = "notify"
    /\ boot' = CASE outcome = "sent" -> [boot EXCEPT !.ready = TRUE, !.pc = "tls"]
                 [] outcome = "unsent" -> [boot EXCEPT !.pc = "tls"]
                 [] OTHER -> [boot EXCEPT !.pc = "exit"]
    /\ UNCHANGED <<now, cache, hpc, hloc, nrec, resp, log, overlap, written, supplied>>

\* Line 207: the reporting endpoint listens.
MainServeTLS ==
    /\ boot.pc = "tls"
    /\ boot' = [boot EXCEPT !.https = TRUE, !.pc = "serve"]
    /\ UNCHANGED <<now, cache, hpc, hloc, nrec, resp, log, overlap, written, supplied>>

----------------------------------------------------------------------------

Keys == { StripLast(q) : q \in QNames }

Init ==
    /\ boot = Serving
    /\ now = 0
    /\ cache = EmptyMap
    /\ hpc = [p \in Handlers |-> "idle"]
    /\ hloc = [p \in Handlers |-> NoLocals]
    /\ nrec = 0
    /\ resp = NoResp
    /\ log = [k \in Keys |-> << >>]
    /\ overlap = [k \in Keys |-> FALSE]
    /\ written = [k \in Keys |-> -1]
    /\ supplied = [k \in Keys |-> {}]

Next ==
    \/ \E p \in Handlers, q \in QNames, a \in Addrs : ServeDNSGet(p, q, a)
    \/ \E p \in Handlers : ServeDNSSet(p)
    \/ \E d \in Steps : Advance(d)
    \/ LookupOptions
    \/ LookupBadInput
    \/ \E req \in Requests : Lookup(req)

Spec == Init /\ [][Next]_vars

\* The process from the first statement of main on.
InitStart ==
    /\ boot = Booting
    /\ now = 0
    /\ cache = EmptyMap
    /\ hpc = [p \in Handlers |-> "idle"]
    /\ hloc = [p \in Handlers |-> NoLocals]
    /\ nrec = 0
    /\ resp = NoResp
    /\ log = [k \in Keys |-> << >>]
    /\ overlap = [k \in Keys |-> FALSE]
    /\ written = [k \in Keys |-> -1]
    /\ supplied = [k \in Keys |-> {}]

NextStart ==
    \/ MainNewStore
    \/ \E ok \in BOOLEAN : MainOpenCountry(ok)
    \/ \E ok \in BOOLEAN : MainOpenASN(ok)
    \/ MainListen
    \/ \E outcome \in {"sent", "unsent", "error"} : MainNotify(outcome)
    \/ MainServeTLS
    \/ \E p \in Handlers, q \in QNames, a \in Addrs : ServeDNSGet(p, q, a)
    \/ \E p \in Handlers : ServeDNSSet(p)
    \/ LookupOptions
    \/ LookupBadInput
    \/ \E req \in Requests : Lookup(req)

SpecStart == InitStart /\ [][NextStart]_vars

\* The handler with every input its signature admits: a question name with
\* no trailing separator, a remote address of another kind.
NextInputs ==
    \/ Next
    \/ \E p \in Handlers, q \in AnyNames \ QNames, a \in Addrs : ServeDNSGet(p, q, a)
    \/ \E p \in Handlers : ServeDNSPanic(p)

SpecInputs == Init /\ [][NextInputs]_vars

TypeOK ==
    /\ now \in 0..MaxTime
    /\ DOMAIN cache \subseteq Keys
    /\ nrec \in 0..MaxRecords

----------------------------------------------------------------------------
(* Properties *)

Range(q) == { q[i] : i \in 1..Len(q) }

\* The response is a report, or a failed report, of the aggregation.
IsReport(r) == r.code # 0 /\ r.msg \in {"", "failed parsing IPs"}

Resolves(ip) == ~dbCountry(ip).err /\ ~dbASN(ip).err

\* The non-blank addresses a report was built from.
Recorded(r) == DOMAIN r.uniq \ {EmptyStr}

Quiet(d) == InFlight(d) = {} /\ CacheGet(cache, d, now) # EmptyStr

\* C1: when all recordings of a domain have finished, inside its window,
\* the value read for the domain holds every address recorded for it in this
\* window, however the recordings were interleaved.
C1_NoLostUpdate ==
    \A d \in Keys :
        Quiet(d) => Range(log[d]) \subseteq Range(Split(CacheGet(cache, d, now)))

C3_ExpiredReadsEmpty ==
    LET Expired(d) == written[d] >= 0 /\ now - written[d] >= 300 IN
    /\ \A d \in Keys : Expired(d) => CacheGet(cache, d, now) = EmptyStr
    /\ (IsReport(resp) /\ resp.req # << >> /\ \A d \in Range(resp.req) : Expired(d)) =>
          /\ Recorded(resp) = {}
          /\ resp.code = 200
          /\ resp.body = EmptyMap

C3_ExpiredWasRead ==
    \E d \in Keys :
        /\ written[d] = 0 /\ now = 300 /\ d \in DOMAIN cache
        /\ IsReport(resp) /\ resp.req = <<d>>

\* C4: when every address a lookup has read resolves, its report has an
\* entry for the network identifier of each of them.
C4_ReportCoversEveryAddress ==
    (IsReport(resp) /\ \A ip \in Recorded(resp) : Resolves(ip)) =>
        /\ resp.code = 200
        /\ \A ip \in Recorded(resp) : dbASN(ip).Number \in DOMAIN resp.body

\* C5: when an address a lookup has read does not resolve, the request ends
\* in a failure with no entries.
C5_FailureAbortsRequest ==
    (IsReport(resp) /\ \E ip \in Recorded(resp) : ~Resolves(ip)) =>
        /\ resp.code = 400
        /\ resp.body = EmptyMap

\* C6: a lookup that follows a lookup with the same domain list, with no
\* write and no expiry since, has the same outcome as the one before.
C6_SameRequestSameOutcome ==
    [][(IsReport(resp) /\ IsReport(resp') /\ resp'.req = resp.req
            /\ cache' = cache /\ now' = now) =>
          (resp'.code = resp.code /\ resp'.body = resp.body)]_vars

\* C7: an address read more than once by a lookup (under two domains, twice
\* under one, or from a domain listed twice) has exactly one entry for its
\* network identifier in the report, and the report has no more entries than
\* the addresses read have identifiers.
C7_OneEntryPerAddress ==
    (IsReport(resp) /\ resp.code = 200) =>
        /\ \A ip \in Recorded(resp) :
             (resp.uniq[ip] >= 2 /\ Resolves(ip)) =>
                Cardinality({k \in DOMAIN resp.body : k = dbASN(ip).Number}) = 1
        /\ Cardinality(DOMAIN resp.body)
             <= Cardinality({dbASN(ip).Number : ip \in Recorded(resp)})

\* The first address among those the loop got to that has identifier asn.
FirstWith(visited, asn) ==
    visited[CHOOSE i \in 1..Len(visited) :
                /\ dbASN(visited[i]).Number = asn
                /\ \A j \in 1..(i - 1) : dbASN(visited[j]).Number # asn]

\* C8: every entry of a report is built from the first address the loop met
\* with that network identifier: organization, country and IP are all its.
C8_FirstSeenWins ==
    (IsReport(resp) /\ resp.code = 200) =>
        \A asn \in DOMAIN resp.body :
            /\ \E i \in 1..Len(resp.visited) : dbASN(resp.visited[i]).Number = asn
            /\ LET first == FirstWith(resp.visited, asn) IN
                /\ resp.body[asn].IP = first
                /\ resp.body[asn].ISP = dbASN(first).Organization
                /\ resp.body[asn].Country = dbCountry(first).IsoCode

C8_Collision ==
    /\ IsReport(resp) /\ resp.code = 200
    /\ \E i, j \in 1..Len(resp.visited) :
         /\ i < j
         /\ dbASN(resp.visited[i]).Number = dbASN(resp.visited[j]).Number
         /\ dbCountry(resp.visited[i]).IsoCode # dbCountry(resp.visited[j]).IsoCode

\* C9: a lookup with an empty domain list succeeds with the empty mapping,
\* whatever the store holds.
C9_EmptyRequestEmptyReport ==
    (IsReport(resp) /\ resp.req = << >>) =>
        /\ resp.code = 200
        /\ resp.body = EmptyMap

C9_EmptyRequestServed ==
    /\ IsReport(resp) /\ resp.req = << >>
    /\ \E d \in Keys : CacheGet(cache, d, now) # EmptyStr

\* C10: a recording sets the deadline of the whole record, the addresses
\* read before included, to now + 300; a step of lookup leaves the store as
\* it is; so no record is alive 300 seconds after its last write.
C10_OnlyWritesRefresh ==
    [][/\ \A p \in Handlers :
            (hpc[p] = "got" /\ hpc'[p] = "idle") =>
                LET d == hloc[p].domain IN
                /\ d \in DOMAIN cache'
                /\ cache'[d].Timestamp = now + 300
                /\ SubSeq(cache'[d].Value, 1, Len(hloc[p].ips)) = hloc[p].ips
       /\ (hpc' = hpc /\ now' = now) => cache' = cache
       /\ \A d \in Keys :
            CacheGet(cache', d, now') # EmptyStr =>
                (written'[d] >= 0 /\ now' < written'[d] + 300)]_vars

C10_RefreshedAndRead ==
    /\ IsReport(resp) /\ resp.req # << >>
    /\ \E d \in Keys :
         /\ Len(log[d]) = 2 /\ written[d] = 150
         /\ d \in DOMAIN cache /\ cache[d].Timestamp = 450

\* C11: a request that fails (a body that does not decode, or an address
\* that does not resolve) gets a failure response with no entries and changes
\* nothing else: the store, the recordings in flight and the clock are as
\* before and the process keeps running.
C11_FailureRejectsOnlyRequest ==
    [][(resp'.code = 400 /\ resp' # resp) =>
          /\ resp'.msg \in {"failed decoding input", "failed parsing IPs"}
          /\ resp'.body = EmptyMap
          /\ boot' = boot /\ boot'.pc # "exit"
          /\ cache' = cache /\ now' = now
          /\ hpc' = hpc /\ hloc' = hloc /\ nrec' = nrec]_vars

C11_FailedWhileRecording ==
    /\ resp.code = 400 /\ resp.msg = "failed parsing IPs"
    /\ \E p \in Handlers : hpc[p] = "got"
    /\ \E d \in Keys : CacheGet(cache, d, now) # EmptyStr

\* C12: a query whose remote address is of no known kind is ignored: the
\* store is as before and the process goes on serving queries.
C12_UnknownAddressIgnored ==
    [][\A p \in Handlers :
          (hpc[p] = "idle" /\ hpc'[p] = "panic") =>
              (cache' = cache /\ boot'.pc # "exit")]_vars

\* The name without its trailing root separator, when it has one.
StripDot(name) ==
    IF name # << >> /\ name[Len(name)] = "."
    THEN SubSeq(name, 1, Len(name) - 1)
    ELSE name

\* C13: a recording stores the address under the question name without its
\* trailing root separator, and under the name itself when it has none.
C13_KeyIsNameWithoutRootDot ==
    [][\A p \in Handlers :
          (hpc[p] = "got" /\ hpc'[p] = "idle") =>
              LET k == StripDot(hloc[p].name) IN
              /\ k \in DOMAIN cache'
              /\ cache'[k].Timestamp = now + TTL
              /\ LET parts == Split(cache'[k].Value) IN
                 parts[Len(parts)] = hloc[p].ip]_vars

\* The pieces of a value that are addresses.
NonBlank(parts) == SelectSeq(parts, LAMBDA x : x # EmptyStr)

C15_OtherKeysUntouched ==
    [][\A p \in Handlers :
          /\ (hpc[p] = "idle" /\ hpc'[p] = "got") => cache' = cache
          /\ (hpc[p] = "got" /\ hpc'[p] = "idle") =>
                \A k \in Keys \ {hloc[p].domain} :
                    /\ k \in DOMAIN cache' <=> k \in DOMAIN cache
                    /\ k \in DOMAIN cache => cache'[k] = cache[k]]_vars

C15_TwoKeysWritten ==
    \E d, k \in Keys :
        /\ d # k
        /\ written[d] = 150 /\ d \in DOMAIN cache
        /\ written[k] = 0 /\ k \in DOMAIN cache /\ cache[k].Timestamp = 300

\* C16: a listener is started, readiness signalled and traffic served only
\* after the store was created and both datasets were opened; when a dataset
\* fails to open the process exits with no listener started and no
\* readiness signalled.
C16_ListenOnlyWhenLoaded ==
    LET loaded == boot.store /\ boot.country /\ boot.asn IN
    /\ (boot.dns \/ boot.ready \/ boot.https) => loaded
    /\ (nrec > 0 \/ resp # NoResp) => loaded
    /\ (boot.pc = "exit" /\ ~loaded) =>
          (~boot.dns /\ ~boot.ready /\ ~boot.https /\ nrec = 0 /\ resp = NoResp)

C16_ServingAfterStartup ==
    /\ boot.pc = "serve" /\ boot.ready /\ boot.https
    /\ nrec > 0 /\ resp # NoResp

\* C17: in a successful report every entry's address is non-empty, is
\* held in the unexpired record of a requested domain at the time of the
\* read, was supplied by a recorded query for that domain, and is filed
\* under its own network identifier; so no entry stems from an address
\* recorded only under a domain that was not requested.
C17_ReportIsSound ==
    (IsReport(resp) /\ resp.code = 200) =>
        \A asn \in DOMAIN resp.body :
            LET ip == resp.body[asn].IP IN
            /\ ip # EmptyStr
            /\ ~dbASN(ip).err /\ dbASN(ip).Number = asn
            /\ \E d \in Range(resp.req) :
                 /\ Alive(cache, d, now)
                 /\ ip \in Range(Split(cache[d].Value))
                 /\ ip \in supplied[d]

C17_OtherDomainLeftOut ==
    /\ IsReport(resp) /\ resp.code = 200
    /\ resp.body # EmptyMap
    /\ \E d \in Keys \ Range(resp.req) :
         /\ Alive(cache, d, now)
         /\ \E ip \in Range(NonBlank(Split(cache[d].Value))) :
              /\ ~dbASN(ip).err
              /\ \A e \in Range(resp.req) : ip \notin supplied[e]

\* C18: a request with a non-empty domain list all of whose domains were
\* never recorded or have expired is answered with success and the empty
\* mapping.
C18_NothingAliveEmptyReport ==
    (/\ IsReport(resp)
     /\ resp.req # << >>
     /\ \A d \in Range(resp.req) : ~Alive(cache, d, now)) =>
        (resp.code = 200 /\ resp.msg = "" /\ resp.body = EmptyMap)

C18_ExpiredAndAbsentAsked ==
    /\ IsReport(resp)
    /\ Len(resp.req) = 2
    /\ \E d \in Range(resp.req) : d \in DOMAIN cache /\ ~Alive(cache, d, now)
    /\ \E d \in Range(resp.req) : d \notin DOMAIN cache

\* C19: every value in the store starts with the separator ",", and for
\* every request with a non-empty domain list the set of addresses lookup
\* builds has the empty string among its keys, whether the requested
\* domains are recorded, absent or expired.
C19_BlankKeyAlwaysCounted ==
    /\ \A d \in DOMAIN cache :
         cache[d].Value # EmptyStr /\ Head(cache[d].Value) = Comma
    /\ (resp.code # 0 /\ resp.req # << >>) => EmptyStr \in DOMAIN resp.uniq

C19_BlankBesideAddresses ==
    /\ IsReport(resp)
    /\ \E d \in Range(resp.req) : Alive(cache, d, now)
    /\ Recorded(resp) # {}
    /\ EmptyStr \in DOMAIN resp.uniq

====
